---- MODULE Spec2Model ----
(***************************************************************************)
(* A model of .github/scripts/release_watch.py: the release-watch          *)
(* pipeline (fetch, filter, sort, format, write, signal) and its pure      *)
(* helpers (parse_iso8601, extract_items, classify,                        *)
(* extract_changelog_url, format_release).                                 *)
(*                                                                         *)
(* Python strings are TLA+ strings; TLC evaluates Len, SubSeq and \o on    *)
(* them.  An optional JSON field (absent key or null) is the empty tuple   *)
(* << >>, a present string field is the one-element tuple << "text" >>.    *)
(***************************************************************************)
EXTENDS Integers, Sequences, FiniteSets, TLC

-----------------------------------------------------------------------------
(* Characters and Python's str primitives                                  *)

\* The printable ASCII characters in code-point order: 32 (space) .. 95, and
\* 97 .. 126 (code point 96, the grave accent, is not used by the model).
AsciiLow == " !\"#$%&'()*+,-./0123456789:;<=>?@ABCDEFGHIJKLMNOPQRSTUVWXYZ[\\]^_"
AsciiHigh == "abcdefghijklmnopqrstuvwxyz{|}~"

\* s[i] as a one-character string.
Ch(s, i) == SubSeq(s, i, i)

\* ord(c) for the characters the model uses (tab, LF, FF, CR and printable ASCII).
OrdTable ==
  [c \in {"\t", "\n", "\f", "\r"}
        \cup {Ch(AsciiLow, i) : i \in 1..Len(AsciiLow)}
        \cup {Ch(AsciiHigh, i) : i \in 1..Len(AsciiHigh)} |->
     IF c = "\t" THEN 9
     ELSE IF c = "\n" THEN 10
     ELSE IF c = "\f" THEN 12
     ELSE IF c = "\r" THEN 13
     ELSE IF \E i \in 1..Len(AsciiLow) : Ch(AsciiLow, i) = c
          THEN 31 + (CHOOSE i \in 1..Len(AsciiLow) : Ch(AsciiLow, i) = c)
          ELSE 96 + (CHOOSE i \in 1..Len(AsciiHigh) : Ch(AsciiHigh, i) = c)]

Ord(c) == OrdTable[c]

\* chr(n) for the lower-case letters.
Chr(n) == Ch(AsciiHigh, n - 96)

\* str.isspace() / the regex class \s, on the characters the model uses.
IsSpace(c) == c \in {" ", "\t", "\n", "\r", "\f"}

\* Python's substring test (key in s).
Contains(s, key) ==
  \E i \in 1..(Len(s) - Len(key) + 1) : SubSeq(s, i, i + Len(key) - 1) = key

\* str.startswith(prefix).
StartsWith(s, prefix) ==
  Len(s) >= Len(prefix) /\ SubSeq(s, 1, Len(prefix)) = prefix

\* str.lower().  The string is halved at each level so that the depth of
\* the evaluation grows with the logarithm of its length.
LowerCh(c) == IF Ord(c) >= 65 /\ Ord(c) <= 90 THEN Chr(Ord(c) + 32) ELSE c

RECURSIVE Lower(_)
Lower(s) ==
  IF s = "" THEN ""
  ELSE IF Len(s) = 1 THEN LowerCh(s)
  ELSE LET h == Len(s) \div 2
       IN  Lower(SubSeq(s, 1, h)) \o Lower(SubSeq(s, h + 1, Len(s)))

\* Character classes: the regex classes [\*-], \s and \S, and the argument
\* "\n\r" of rstrip.
InClass(kind, c) ==
  IF kind = "marker" THEN c \in {"*", "-"}
  ELSE IF kind = "space" THEN IsSpace(c)
  ELSE IF kind = "nonspace" THEN ~IsSpace(c)
  ELSE c \in {"\n", "\r"}

\* The length of the longest run of characters of a class that starts at
\* position i of s (the greedy match of class+ or class*), and of the longest
\* run that ends s.
RunLength(kind, s, i) ==
  IF i > Len(s) THEN 0
  ELSE IF \E j \in i..Len(s) : ~InClass(kind, Ch(s, j))
       THEN (CHOOSE j \in i..Len(s) :
               /\ ~InClass(kind, Ch(s, j))
               /\ \A k \in i..(j - 1) : InClass(kind, Ch(s, k))) - i
       ELSE Len(s) - i + 1

TrailLength(kind, s) ==
  IF \E j \in 1..Len(s) : ~InClass(kind, Ch(s, j))
  THEN Len(s) - (CHOOSE j \in 1..Len(s) :
                   /\ ~InClass(kind, Ch(s, j))
                   /\ \A k \in (j + 1)..Len(s) : InClass(kind, Ch(s, k)))
  ELSE Len(s)

\* str.lstrip() / str.rstrip() / str.strip() with no argument.
LStrip(s) == SubSeq(s, RunLength("space", s, 1) + 1, Len(s))

RStrip(s) == SubSeq(s, 1, Len(s) - TrailLength("space", s))

Strip(s) == LStrip(RStrip(s))

\* str.rstrip("\n\r"): trailing line feeds and carriage returns only.
RStripNewlines(s) == SubSeq(s, 1, Len(s) - TrailLength("newline", s))

\* str.splitlines(): the lines of s without their terminators; "\r\n" is one
\* terminator, "\n", "\r" and "\f" are terminators on their own, and a final
\* terminator opens no further line.
IsLineBreak(c) == c \in {"\n", "\r", "\f"}

\* The positions where a line terminator starts (the "\n" of a "\r\n" starts
\* none), and the length of the terminator at such a position.
BreakStarts(s) ==
  { i \in 1..Len(s) :
      /\ IsLineBreak(Ch(s, i))
      /\ ~(Ch(s, i) = "\n" /\ i > 1 /\ Ch(s, i - 1) = "\r") }

BreakLength(s, i) ==
  IF Ch(s, i) = "\r" /\ i < Len(s) /\ Ch(s, i + 1) = "\n" THEN 2 ELSE 1

SplitLines(s) ==
  LET B == BreakStarts(s)
      n == Cardinality(B)
      \* the k-th terminator, and where line k starts
      brk(k) == CHOOSE b \in B : Cardinality({c \in B : c < b}) = k - 1
      start(k) == IF k = 1 THEN 1 ELSE brk(k - 1) + BreakLength(s, brk(k - 1))
      terminated == [k \in 1..n |-> SubSeq(s, start(k), brk(k) - 1)]
  IN  IF start(n + 1) <= Len(s)
      THEN Append(terminated, SubSeq(s, start(n + 1), Len(s)))
      ELSE terminated

\* "sep".join(parts).
RECURSIVE Join(_, _)
Join(sep, parts) ==
  IF parts = << >> THEN ""
  ELSE IF Len(parts) = 1 THEN parts[1]
  ELSE parts[1] \o sep \o Join(sep, Tail(parts))

\* Python's a < b on strings: code-point lexicographic order.  The strings
\* are compared at the first position where they differ; a proper prefix is
\* less than the string it is a prefix of.
StrLess(a, b) ==
  LET n == IF Len(a) < Len(b) THEN Len(a) ELSE Len(b)
  IN  IF \E i \in 1..n : Ch(a, i) # Ch(b, i)
      THEN LET i == CHOOSE j \in 1..n :
                      /\ Ch(a, j) # Ch(b, j)
                      /\ \A k \in 1..(j - 1) : Ch(a, k) = Ch(b, k)
           IN  Ord(Ch(a, i)) < Ord(Ch(b, i))
      ELSE Len(a) < Len(b)

-----------------------------------------------------------------------------
(* Keyword vocabularies (release_watch.py lines 10-35)                     *)

BREAKING_KEYS ==
  << "breaking", "remove", "rename", "deprecat", "schema", "openapi", "api",
     "tls", "https", "auth", "config", "protocol", "migration" >>

FEATURE_KEYS ==
  << "add ", "added", "feat", "feature", "support", "introduce", "new ",
     "bring back", "restore" >>

\* any(key in lower for key in keys)
AnyKeyIn(keys, lower) == \E k \in 1..Len(keys) : Contains(lower, keys[k])

-----------------------------------------------------------------------------
(* extract_items (lines 53-61)                                             *)

\* re.sub(r"^[\*-]+\s+", "", line): the pattern matches only when at least
\* one marker is followed by at least one whitespace character; a line the
\* pattern does not match is returned unchanged.
ReSubMarker(line) ==
  LET m == RunLength("marker", line, 1)
      w == RunLength("space", line, m + 1)
  IN  IF m >= 1 /\ w >= 1 THEN SubSeq(line, m + w + 1, Len(line)) ELSE line

\* One iteration of the loop of extract_items: the items after `line`.
ExtractLine(items, rawLine) ==
  LET line == Strip(rawLine)
  IN  IF StartsWith(line, "*") \/ StartsWith(line, "-")
      THEN LET item == Strip(ReSubMarker(line))
           IN  IF item # "" THEN Append(items, item) ELSE items
      ELSE items

RECURSIVE ExtractLoop(_, _)
ExtractLoop(items, lines) ==
  IF lines = << >> THEN items
  ELSE ExtractLoop(ExtractLine(items, Head(lines)), Tail(lines))

extract_items(body) == ExtractLoop(<< >>, SplitLines(body))

-----------------------------------------------------------------------------
(* classify (lines 64-76)                                                  *)

\* A mutant of the tests of lines 70-75: the feature test comes first.
Category_FeatureFirst(item) ==
  LET lower == Lower(item)
  IN  IF AnyKeyIn(FEATURE_KEYS, lower) THEN "features"
      ELSE IF AnyKeyIn(BREAKING_KEYS, lower) THEN "breaking"
      ELSE "other"

\* The category one item falls in: the breaking test comes first.
Category(item) ==
  LET lower == Lower(item)
  IN  IF AnyKeyIn(BREAKING_KEYS, lower) THEN "breaking"
      ELSE IF AnyKeyIn(FEATURE_KEYS, lower) THEN "features"
      ELSE "other"

\* A mutant of the loop body of classify: "if" for "elif", so that the
\* feature test is made for an item that is already in breaking.
ClassifyItem_IfIf(acc, item) ==
  LET lower == Lower(item)
      first == IF AnyKeyIn(BREAKING_KEYS, lower)
               THEN [acc EXCEPT !.breaking = Append(@, item)] ELSE acc
  IN  IF AnyKeyIn(FEATURE_KEYS, lower)
      THEN [first EXCEPT !.features = Append(@, item)]
      ELSE [first EXCEPT !.other = Append(@, item)]

\* One iteration of the loop of classify.
ClassifyItem(acc, item) ==
  LET cat == Category(item)
  IN  [acc EXCEPT ![cat] = Append(@, item)]

RECURSIVE ClassifyLoop(_, _)
ClassifyLoop(acc, items) ==
  IF items = << >> THEN acc
  ELSE ClassifyLoop(ClassifyItem(acc, Head(items)), Tail(items))

classify(items) ==
  ClassifyLoop([breaking |-> << >>, features |-> << >>, other |-> << >>], items)

-----------------------------------------------------------------------------
(* extract_changelog_url (lines 79-85)                                     *)

\* Whether r"https?://\S+" matches at position i of line.
UrlPrefixAt(line, i) ==
  IF i + 7 <= Len(line) /\ SubSeq(line, i, i + 7) = "https://" THEN 8
  ELSE IF i + 6 <= Len(line) /\ SubSeq(line, i, i + 6) = "http://" THEN 7
  ELSE 0

UrlMatchesAt(line, i) ==
  LET p == UrlPrefixAt(line, i)
  IN  p > 0 /\ RunLength("nonspace", line, i + p) >= 1

\* re.search(r"https?://\S+", line): the leftmost match, << >> when none.
ReSearchUrl(line) ==
  IF \E i \in 1..Len(line) : UrlMatchesAt(line, i)
  THEN LET i == CHOOSE j \in 1..Len(line) :
                  /\ UrlMatchesAt(line, j)
                  /\ \A k \in 1..(j - 1) : ~UrlMatchesAt(line, k)
           p == UrlPrefixAt(line, i)
       IN  << SubSeq(line, i, i + p + RunLength("nonspace", line, i + p) - 1) >>
  ELSE << >>

RECURSIVE UrlLoop(_)
UrlLoop(lines) ==
  IF lines = << >> THEN << >>
  ELSE LET line == Head(lines)
           match == IF Contains(line, "Full Changelog") /\ Contains(line, "http")
                    THEN ReSearchUrl(line) ELSE << >>
       IN  IF match # << >> THEN << RStripNewlines(match[1]) >>
           ELSE UrlLoop(Tail(lines))

\* A mutant of lines 80-85: the first line with "Full Changelog" and "http"
\* decides, "return match.group(0) if match else None".
RECURSIVE UrlLoopFirstOnly(_)
UrlLoopFirstOnly(lines) ==
  IF lines = << >> THEN << >>
  ELSE IF Contains(Head(lines), "Full Changelog") /\ Contains(Head(lines), "http")
       THEN ReSearchUrl(Head(lines))
       ELSE UrlLoopFirstOnly(Tail(lines))

extract_changelog_url_FirstOnly(body) == UrlLoopFirstOnly(SplitLines(body))

extract_changelog_url(body) == UrlLoop(SplitLines(body))

-----------------------------------------------------------------------------
(* parse_iso8601 (lines 49-50) and the datetime operations main uses       *)
(*                                                                         *)
(* An instant is a number of seconds since 2000-01-01T00:00:00 UTC.        *)
(* The parser covers the full form YYYY-MM-DDTHH:MM:SS+HH:MM (or -HH:MM)   *)
(* that value.replace("Z", "+00:00") produces from the platform's          *)
(* timestamps; every other string of the timestamp pool is one that        *)
(* datetime.fromisoformat rejects.                                         *)

IsDigit(c) == c \in {"0", "1", "2", "3", "4", "5", "6", "7", "8", "9"}

DigitVal(c) == Ord(c) - 48

AllDigits(s) == \A i \in 1..Len(s) : IsDigit(Ch(s, i))

\* int(s) for a string of digits.
RECURSIVE Num(_)
Num(s) ==
  IF s = "" THEN 0
  ELSE 10 * Num(SubSeq(s, 1, Len(s) - 1)) + DigitVal(Ch(s, Len(s)))

\* value.replace("Z", "+00:00"): every occurrence.
RECURSIVE ReplaceZ(_)
ReplaceZ(s) ==
  IF s = "" THEN ""
  ELSE IF Len(s) = 1 THEN (IF s = "Z" THEN "+00:00" ELSE s)
  ELSE LET h == Len(s) \div 2
       IN  ReplaceZ(SubSeq(s, 1, h)) \o ReplaceZ(SubSeq(s, h + 1, Len(s)))

IsLeap(y) == (y % 4 = 0 /\ y % 100 # 0) \/ y % 400 = 0

DaysInMonth(y, m) ==
  IF m = 2 THEN (IF IsLeap(y) THEN 29 ELSE 28)
  ELSE IF m \in {4, 6, 9, 11} THEN 30
  ELSE 31

\* Days from 2000-01-01 to the proleptic Gregorian date y-m-d.
DaysFromCivil(y, m, d) ==
  LET yy == IF m <= 2 THEN y - 1 ELSE y
      era == yy \div 400
      yoe == yy - era * 400
      mp == IF m > 2 THEN m - 3 ELSE m + 9
      doy == (153 * mp + 2) \div 5 + d - 1
      doe == yoe * 365 + yoe \div 4 - yoe \div 100 + doy
  IN  era * 146097 + doe - 730425

\* The proleptic Gregorian date, days after 2000-01-01.
CivilFromDays(days) ==
  LET z == days + 730425
      era == z \div 146097
      doe == z - era * 146097
      yoe == (doe - doe \div 1460 + doe \div 36524 - doe \div 146096) \div 365
      doy == doe - (365 * yoe + yoe \div 4 - yoe \div 100)
      mp == (5 * doy + 2) \div 153
      d == doy - (153 * mp + 2) \div 5 + 1
      m == IF mp < 10 THEN mp + 3 ELSE mp - 9
      y == yoe + era * 400 + (IF m <= 2 THEN 1 ELSE 0)
  IN  [year |-> y, month |-> m, day |-> d]

\* The shape YYYY-MM-DDTHH:MM:SS(+|-)HH:MM.
IsoShape(s) ==
  /\ Len(s) = 25
  /\ AllDigits(SubSeq(s, 1, 4)) /\ Ch(s, 5) = "-"
  /\ AllDigits(SubSeq(s, 6, 7)) /\ Ch(s, 8) = "-"
  /\ AllDigits(SubSeq(s, 9, 10)) /\ Ch(s, 11) = "T"
  /\ AllDigits(SubSeq(s, 12, 13)) /\ Ch(s, 14) = ":"
  /\ AllDigits(SubSeq(s, 15, 16)) /\ Ch(s, 17) = ":"
  /\ AllDigits(SubSeq(s, 18, 19)) /\ Ch(s, 20) \in {"+", "-"}
  /\ AllDigits(SubSeq(s, 21, 22)) /\ Ch(s, 23) = ":"
  /\ AllDigits(SubSeq(s, 24, 25))

\* datetime.fromisoformat(s): [ok |-> FALSE] is the ValueError, otherwise the
\* wall-clock seconds and the UTC offset in seconds.
FromIsoFormat(s) ==
  IF ~IsoShape(s) THEN [ok |-> FALSE, wall |-> 0, offset |-> 0]
  ELSE LET y == Num(SubSeq(s, 1, 4))
           mo == Num(SubSeq(s, 6, 7))
           d == Num(SubSeq(s, 9, 10))
           h == Num(SubSeq(s, 12, 13))
           mi == Num(SubSeq(s, 15, 16))
           sec == Num(SubSeq(s, 18, 19))
           oh == Num(SubSeq(s, 21, 22))
           om == Num(SubSeq(s, 24, 25))
           sign == IF Ch(s, 20) = "-" THEN -1 ELSE 1
       IN  IF /\ y >= 1 /\ mo >= 1 /\ mo <= 12
              /\ d >= 1 /\ d <= DaysInMonth(y, mo)
              /\ h <= 23 /\ mi <= 59 /\ sec <= 59 /\ oh <= 23 /\ om <= 59
           THEN [ok |-> TRUE,
                 wall |-> DaysFromCivil(y, mo, d) * 86400 + h * 3600 + mi * 60 + sec,
                 offset |-> sign * (oh * 3600 + om * 60)]
           ELSE [ok |-> FALSE, wall |-> 0, offset |-> 0]

\* parse_iso8601(value): [ok |-> FALSE] when fromisoformat raises, otherwise
\* the instant, normalised to UTC by astimezone.
parse_iso8601(value) ==
  LET r == FromIsoFormat(ReplaceZ(value))
  IN  [ok |-> r.ok, t |-> r.wall - r.offset]

\* str(n) for n >= 0, and n zero-padded to a width.
RECURSIVE IntToStr(_)
IntToStr(n) ==
  IF n < 10 THEN Ch("0123456789", n + 1)
  ELSE IntToStr(n \div 10) \o Ch("0123456789", (n % 10) + 1)

RECURSIVE ZeroPad(_, _)
ZeroPad(str, width) == IF Len(str) >= width THEN str ELSE ZeroPad("0" \o str, width)

\* instant.date().isoformat(), the instant being in UTC.
DateIso(t) ==
  LET c == CivilFromDays(t \div 86400)
  IN  ZeroPad(IntToStr(c.year), 4) \o "-" \o ZeroPad(IntToStr(c.month), 2)
        \o "-" \o ZeroPad(IntToStr(c.day), 2)

-----------------------------------------------------------------------------
(* Release records and format_release (lines 88-125)                       *)

\* An optional field: << >> is an absent key or null, << v >> the value v.
None == << >>
Some(v) == << v >>

\* Python truthiness of an optional string: neither None nor "".
Truthy(opt) == opt # None /\ opt[1] # ""

\* release.get("published_at") or release.get("created_at")
PublishedAt(release) ==
  IF Truthy(release.published_at) THEN release.published_at ELSE release.created_at

\* A mutant of line 90: created_at is preferred to published_at.
FormatTimestamp_CreatedFirst(release) ==
  IF Truthy(release.created_at) THEN release.created_at ELSE release.published_at

\* The timestamp format_release parses (line 90): the expression main uses.
FormatTimestamp(release) == PublishedAt(release)

\* [f"- {item}" for item in items]
Bullets(items) == [k \in 1..Len(items) |-> "- " \o items[k]]

NoneDetected == "- None detected from release notes"

\* Lines 106-111 and 113-118: a blank line, a subheading that is always
\* there, and the bullets of the category or the one "None detected" bullet.
MandatoryBlock(title, items) ==
  << "", "### " \o title >>
    \o (IF items # << >> THEN Bullets(items) ELSE << NoneDetected >>)

\* A mutant of lines 120-123: the subheading is there whatever the list holds.
OtherBlock_Always(other) == << "", "### Other changes" >> \o Bullets(other)

\* Lines 120-123: the block of the other changes, only when there are any.
OtherBlock(other) ==
  IF other # << >> THEN << "", "### Other changes" >> \o Bullets(other) ELSE << >>

\* Lines 99-104: the heading and the two optional link lines.
HeadBlock(tag, published, prerelease, url, changelog) ==
  << "## " \o tag \o " (" \o DateIso(published) \o ", " \o prerelease \o ")" >>
    \o (IF Truthy(url) THEN << "Source: [Release](" \o url[1] \o ")" >> ELSE << >>)
    \o (IF Truthy(changelog)
        THEN << "Full Changelog: [Compare](" \o changelog[1] \o ")" >> ELSE << >>)

\* format_release(release): [ok |-> FALSE] when parsing its timestamp raises,
\* otherwise the lines of the section and the text that joins them.
format_release(release) ==
  LET tag == IF release.tag_name = None THEN "(unknown)" ELSE release.tag_name[1]
      published_at == FormatTimestamp(release)
      published == IF published_at = None THEN [ok |-> FALSE, t |-> 0]
                   ELSE parse_iso8601(published_at[1])
      prerelease == IF release.prerelease THEN "prerelease" ELSE "release"
      url == release.html_url
      body == IF Truthy(release.body) THEN release.body[1] ELSE ""
      items == extract_items(body)
      cls == classify(items)
      changelog == extract_changelog_url(body)
      lines ==
        HeadBlock(tag, published.t, prerelease, url, changelog)
        \o MandatoryBlock("Potential breaking changes (heuristic)", cls.breaking)
        \o MandatoryBlock("New features", cls.features)
        \o OtherBlock(cls.other)
  IN  IF published.ok
      THEN [ok |-> TRUE, text |-> Join("\n", lines)]
      ELSE [ok |-> FALSE, text |-> ""]

-----------------------------------------------------------------------------
(* Bounds and input pools                                                  *)

\* Longest release list the platform returns in the model.
MaxReleases == 2
\* Longest changelog item list given to classify.
MaxItems == 3
\* Most lines in a release body given to the extractors and the formatter.
MaxBodyLines == 2

\* The instant the run starts at, and how far the clock may have moved on
\* when main reads it again for the header (line 154).
StartClock == parse_iso8601("2024-01-08T12:00:00Z").t
ClockDrift == {0, 1}

\* --days values (7 is the default) and the --repo value.
DaysPool == {1, 7}
Repo == "owner/name"

\* What the output file and the signal file hold before the run.
OldReport == "stale report"
OldSignal == "earlier=1\n"

Rel(tag, pub, created, pre, draft, url, body) ==
  [tag_name |-> tag, published_at |-> pub, created_at |-> created,
   prerelease |-> pre, draft |-> draft, html_url |-> url, body |-> body]

NotesBody ==
  "## Changes\n- Remove legacy auth flag\n- Add retry support\n* Bump deps\n"
    \o "**Full Changelog**: https://example.com/compare/v1...v2 \n"

\* The releases the platform may return.  With StartClock, --days 7 puts the
\* cutoff at 2024-01-01T12:00:00Z and --days 1 at 2024-01-07T12:00:00Z.
ReleasePool ==
  { \* a created_at that does not parse beside a published_at that does
    Rel(Some("v2.1"), Some("2024-01-08T01:00:00Z"), Some("unknown"),
        FALSE, FALSE, Some("https://example.com/r/v2.1"), Some(NotesBody)),
    \* 2024-01-08T04:00:00Z: later than v2.1, though its string sorts lower
    Rel(Some("v2.2"), Some("2024-01-07T23:00:00-05:00"), None,
        FALSE, FALSE, None, Some("- Fix typo")),
    \* exactly at the 7-day cutoff
    Rel(Some("v1.9"), Some("2024-01-01T12:00:00Z"), None, FALSE, FALSE, None, None),
    \* 2024-01-01T11:59:59Z: one second older than the 7-day cutoff
    Rel(Some("v1.7"), Some("2024-01-01T13:59:59+02:00"), None, FALSE, FALSE, None,
        Some("")),
    \* a draft, whose timestamp is never parsed
    Rel(Some("v3.0-draft"), Some("not a timestamp"), None, FALSE, TRUE, None, None),
    \* a prerelease exactly at the 1-day cutoff
    Rel(Some("v3.0-rc1"), Some("2024-01-07T12:00:00Z"), None, TRUE, FALSE, None,
        Some("- Add auth support")),
    \* published_at empty: created_at is used
    Rel(None, Some(""), Some("2024-01-05T00:00:00Z"), FALSE, FALSE, None, None),
    \* neither timestamp
    Rel(Some("v0.1"), None, None, FALSE, FALSE, None, None),
    \* a malformed timestamp (month 13)
    Rel(Some("v2.0"), Some("2024-13-01T00:00:00Z"), None, FALSE, FALSE, None, None) }

\* All sequences over S of length at most n.
SeqsUpTo(S, n) == UNION { [1..k -> S] : k \in 0..n }

-----------------------------------------------------------------------------
(* main (lines 128-181)                                                    *)

VARIABLES
  pc,                  \* the statement main is at
  days,                \* args.days
  include_prereleases, \* args.include_prereleases
  gh_output,           \* whether GITHUB_OUTPUT is in os.environ
  clock,               \* the current UTC instant
  releases,            \* the list fetch_releases returned
  cutoff,              \* line 137
  idx,                 \* the position of the filter loop in releases
  selected,            \* line 139
  header,              \* lines 155-161
  body_sections,       \* line 172
  out_file,            \* the content of the file at args.output
  signal_file,         \* the content of the file GITHUB_OUTPUT names
  exit_status,         \* the process's exit status, -1 while it runs
  out_writes,          \* how many times the output file was written
  signal_appends,      \* how many lines were appended to the signal file
  fn, arg, ret         \* a call of one pure function: its name, input and result

mainVars ==
  << pc, days, include_prereleases, gh_output, clock, releases, cutoff, idx,
     selected, header, body_sections, out_file, signal_file, exit_status,
     out_writes, signal_appends >>
callVars == << fn, arg, ret >>
vars == << mainVars, callVars >>

NoCall == fn = "" /\ arg = << >> /\ ret = << >>

Init ==
  /\ pc = "fetch"
  /\ days \in DaysPool
  /\ include_prereleases \in BOOLEAN
  /\ gh_output \in BOOLEAN
  /\ clock = StartClock
  /\ releases = << >>
  /\ cutoff = 0
  /\ idx = 0
  /\ selected = << >>
  /\ header = << >>
  /\ body_sections = << >>
  /\ out_file = OldReport
  /\ signal_file = OldSignal
  /\ exit_status = -1
  /\ out_writes = 0
  /\ signal_appends = 0
  /\ NoCall

\* An uncaught exception: the interpreter prints the traceback and exits 1.
Raise ==
  /\ pc' = "failed"
  /\ exit_status' = 1

\* Lines 136-139: the fetch succeeds and returns a list of releases.
FetchOk ==
  /\ pc = "fetch"
  /\ \E rs \in SeqsUpTo(ReleasePool, MaxReleases) : releases' = rs
  /\ cutoff' = clock - days * 86400
  /\ selected' = << >>
  /\ idx' = 1
  /\ pc' = "filter"
  /\ UNCHANGED << days, include_prereleases, gh_output, clock, header, body_sections,
                  out_file, signal_file, exit_status, out_writes, signal_appends >>
  /\ UNCHANGED callVars

\* Line 136: urlopen or json.loads raises.
FetchFail ==
  /\ pc = "fetch"
  /\ Raise
  /\ UNCHANGED << days, include_prereleases, gh_output, clock, releases, cutoff, idx,
                  selected, header, body_sections, out_file, signal_file,
                  out_writes, signal_appends >>
  /\ UNCHANGED callVars

\* The tests of lines 141-147 that skip a release without parsing its timestamp.
Skipped(release) ==
  \/ release.draft
  \/ (release.prerelease /\ ~include_prereleases)
  \/ ~Truthy(PublishedAt(release))

\* A mutant of the test of line 149: > for >=.
InWindow_Strict(published) == published > cutoff

\* The test of line 149.
InWindow(published) == published >= cutoff

\* Lines 140-147: one iteration that ends in a continue.
FilterSkip ==
  /\ pc = "filter"
  /\ idx <= Len(releases)
  /\ Skipped(releases[idx])
  /\ idx' = idx + 1
  /\ UNCHANGED << pc, days, include_prereleases, gh_output, clock, releases, cutoff,
                  selected, header, body_sections, out_file, signal_file, exit_status,
                  out_writes, signal_appends >>
  /\ UNCHANGED callVars

\* A mutant of lines 140-148: the ValueError is caught and the release skipped.
FilterParseFail_Skips ==
  /\ pc = "filter"
  /\ idx <= Len(releases)
  /\ ~Skipped(releases[idx])
  /\ ~parse_iso8601(PublishedAt(releases[idx])[1]).ok
  /\ idx' = idx + 1
  /\ UNCHANGED << pc, days, include_prereleases, gh_output, clock, releases, cutoff,
                  selected, header, body_sections, out_file, signal_file, exit_status,
                  out_writes, signal_appends >>
  /\ UNCHANGED callVars

\* Lines 140-148: parse_iso8601 raises ValueError, which nothing catches.
FilterParseFail ==
  /\ pc = "filter"
  /\ idx <= Len(releases)
  /\ ~Skipped(releases[idx])
  /\ ~parse_iso8601(PublishedAt(releases[idx])[1]).ok
  /\ Raise
  /\ UNCHANGED << days, include_prereleases, gh_output, clock, releases, cutoff, idx,
                  selected, header, body_sections, out_file, signal_file,
                  out_writes, signal_appends >>
  /\ UNCHANGED callVars

\* Lines 140-150: one iteration that parses the timestamp and tests the window.
FilterTest ==
  /\ pc = "filter"
  /\ idx <= Len(releases)
  /\ ~Skipped(releases[idx])
  /\ LET published == parse_iso8601(PublishedAt(releases[idx])[1])
     IN  /\ published.ok
         /\ selected' = IF InWindow(published.t)
                        THEN Append(selected, releases[idx]) ELSE selected
  /\ idx' = idx + 1
  /\ UNCHANGED << pc, days, include_prereleases, gh_output, clock, releases, cutoff,
                  header, body_sections, out_file, signal_file, exit_status,
                  out_writes, signal_appends >>
  /\ UNCHANGED callVars

\* The key of line 152, and whether release a sorts before release b when
\* the list is sorted on it with reverse=True.
SortKey(release) == PublishedAt(release)[1]

\* list.sort(key=..., reverse=True): stable, so elements with equal keys keep
\* their order.  An insertion sort: r goes before the first element whose key
\* is less than its own.
RECURSIVE InsertByKeyDesc(_, _)
InsertByKeyDesc(sorted, r) ==
  IF sorted = << >> THEN << r >>
  ELSE IF StrLess(SortKey(Head(sorted)), SortKey(r)) THEN << r >> \o sorted
  ELSE << Head(sorted) >> \o InsertByKeyDesc(Tail(sorted), r)

RECURSIVE SortByKeyDesc(_, _)
SortByKeyDesc(sorted, rest) ==
  IF rest = << >> THEN sorted
  ELSE SortByKeyDesc(InsertByKeyDesc(sorted, Head(rest)), Tail(rest))

\* Lines 155-161.
Header(repo, now, windowDays) ==
  << "# Release Watch",
     "Repo: " \o repo,
     "Checked: " \o DateIso(now) \o " (UTC)",
     "Window: last " \o IntToStr(windowDays) \o " days",
     "" >>

\* Lines 152-161: the loop is over; sort, read the clock again, build the header.
SortAndHeader ==
  /\ pc = "filter"
  /\ idx > Len(releases)
  /\ selected' = SortByKeyDesc(<< >>, selected)
  /\ \E drift \in ClockDrift :
       /\ clock' = clock + drift
       /\ header' = Header(Repo, clock + drift, days)
  /\ pc' = IF selected = << >> THEN "write_empty" ELSE "format"
  /\ UNCHANGED << days, include_prereleases, gh_output, releases, cutoff, idx,
                  body_sections, out_file, signal_file, exit_status,
                  out_writes, signal_appends >>
  /\ UNCHANGED callVars

NoReleasesLine == "No releases published in this window."

\* Lines 163-166: nothing was selected; the report is the header and one line.
WriteEmpty ==
  /\ pc = "write_empty"
  /\ out_file' = Join("\n", header \o << NoReleasesLine >>)
  /\ out_writes' = out_writes + 1
  /\ pc' = "signal_empty"
  /\ UNCHANGED << days, include_prereleases, gh_output, clock, releases, cutoff, idx,
                  selected, header, body_sections, signal_file, exit_status,
                  signal_appends >>
  /\ UNCHANGED callVars

\* Appending one line to the signal file when GITHUB_OUTPUT is set
\* (lines 167-169 and 178-180), then return 0.
SignalAndReturn(line) ==
  /\ IF gh_output
     THEN /\ signal_file' = signal_file \o line
          /\ signal_appends' = signal_appends + 1
     ELSE UNCHANGED << signal_file, signal_appends >>
  /\ exit_status' = 0
  /\ pc' = "done"

\* Lines 167-170.
SignalEmpty ==
  /\ pc = "signal_empty"
  /\ SignalAndReturn("has_releases=0\n")
  /\ UNCHANGED << days, include_prereleases, gh_output, clock, releases, cutoff, idx,
                  selected, header, body_sections, out_file, out_writes >>
  /\ UNCHANGED callVars

\* Line 172: every selected release is formatted; a ValueError from the
\* parse_iso8601 call of format_release would propagate.
FormatAll ==
  /\ pc = "format"
  /\ LET formatted == [k \in 1..Len(selected) |-> format_release(selected[k])]
     IN  IF \A k \in 1..Len(selected) : formatted[k].ok
         THEN /\ body_sections' = [k \in 1..Len(selected) |-> formatted[k].text]
              /\ pc' = "write"
              /\ UNCHANGED exit_status
         ELSE /\ Raise
              /\ UNCHANGED body_sections
  /\ UNCHANGED << days, include_prereleases, gh_output, clock, releases, cutoff, idx,
                  selected, header, out_file, signal_file, out_writes, signal_appends >>
  /\ UNCHANGED callVars

\* Lines 173-176.
WriteReport ==
  /\ pc = "write"
  /\ out_file' = Join("\n", header \o << Join("\n---\n", body_sections) >>)
  /\ out_writes' = out_writes + 1
  /\ pc' = "signal"
  /\ UNCHANGED << days, include_prereleases, gh_output, clock, releases, cutoff, idx,
                  selected, header, body_sections, signal_file, exit_status,
                  signal_appends >>
  /\ UNCHANGED callVars

\* A mutant of lines 178-181: the line of the empty report is appended.
SignalReport_WrongLine ==
  /\ pc = "signal"
  /\ SignalAndReturn("has_releases=0\n")
  /\ UNCHANGED << days, include_prereleases, gh_output, clock, releases, cutoff, idx,
                  selected, header, body_sections, out_file, out_writes >>
  /\ UNCHANGED callVars

\* Lines 178-181.
SignalReport ==
  /\ pc = "signal"
  /\ SignalAndReturn("has_releases=1\n")
  /\ UNCHANGED << days, include_prereleases, gh_output, clock, releases, cutoff, idx,
                  selected, header, body_sections, out_file, out_writes >>
  /\ UNCHANGED callVars

Next ==
  \/ FetchOk
  \/ FetchFail
  \/ FilterSkip
  \/ FilterParseFail
  \/ FilterTest
  \/ SortAndHeader
  \/ WriteEmpty
  \/ SignalEmpty
  \/ FormatAll
  \/ WriteReport
  \/ SignalReport

Spec == Init /\ [][Next]_vars

-----------------------------------------------------------------------------
(* Calls of the pure functions on inputs drawn from pools                  *)

\* main is not running: its variables keep these values.
MainIdle ==
  /\ pc = "idle"
  /\ days = 7
  /\ include_prereleases = FALSE
  /\ gh_output = FALSE
  /\ clock = StartClock
  /\ releases = << >>
  /\ cutoff = 0
  /\ idx = 0
  /\ selected = << >>
  /\ header = << >>
  /\ body_sections = << >>
  /\ out_file = OldReport
  /\ signal_file = OldSignal
  /\ exit_status = -1
  /\ out_writes = 0
  /\ signal_appends = 0

\* Changelog items, as extract_items may return them.
ItemPool ==
  { "Remove legacy auth flag",
    "Add retry support",
    "add auth support",
    "ADD AUTH SUPPORT",
    "Fix typo",
    "Rapid startup",
    "Renew certificates",
    "Bump deps" }

\* Lines of release notes.
LinePool ==
  { "- Remove legacy auth flag",
    "* Add retry support",
    "  - Bump deps  ",
    "-foo",
    "-",
    "- - nested",
    "## Notes",
    "",
    "- None detected from release notes",
    "**Full Changelog**: https://example.com/compare/v1...v2 ",
    "Full Changelog: see http docs",
    "Full Changelog: http://b.example/c\r",
    "see https://example.com/other" }

\* Release bodies: up to MaxBodyLines lines, joined by line feeds.
BodyPool == { Join("\n", ls) : ls \in SeqsUpTo(LinePool, MaxBodyLines) }

\* Releases for format_release: every body, absent and present link and tag.
FormatPool ==
  { Rel(Some("v1.0"), Some("2024-01-01T12:00:00Z"), None, FALSE, FALSE,
        Some("https://example.com/r/v1.0"), Some(b)) : b \in BodyPool }
  \cup { Rel(None, None, Some("2024-12-31T20:00:00-05:00"), TRUE, FALSE, None, Some(b)) :
           b \in BodyPool }
  \cup { Rel(Some("v1.1"), Some("2024-01-01T12:00:00Z"), None, FALSE, FALSE, Some(""), None) }

\* classify(items)
InitClassify == MainIdle /\ fn = "" /\ arg \in SeqsUpTo(ItemPool, MaxItems) /\ ret = << >>

CallClassify ==
  /\ fn = ""
  /\ fn' = "classify"
  /\ ret' = classify(arg)
  /\ UNCHANGED << arg, mainVars >>

NextClassify == CallClassify

SpecClassify == InitClassify /\ [][NextClassify]_vars

\* extract_items(body) and extract_changelog_url(body)
InitExtract == MainIdle /\ fn = "" /\ arg \in BodyPool /\ ret = << >>

CallExtractItems ==
  /\ fn = ""
  /\ fn' = "extract_items"
  /\ ret' = extract_items(arg)
  /\ UNCHANGED << arg, mainVars >>

CallExtractUrl ==
  /\ fn = ""
  /\ fn' = "extract_changelog_url"
  /\ ret' = extract_changelog_url(arg)
  /\ UNCHANGED << arg, mainVars >>

NextExtract == CallExtractItems \/ CallExtractUrl

SpecExtract == InitExtract /\ [][NextExtract]_vars

\* format_release(release)
InitFormat == MainIdle /\ fn = "" /\ arg \in FormatPool /\ ret = << >>

CallFormat ==
  /\ fn = ""
  /\ fn' = "format_release"
  /\ ret' = format_release(arg)
  /\ UNCHANGED << arg, mainVars >>

NextFormat == CallFormat

SpecFormat == InitFormat /\ [][NextFormat]_vars

-----------------------------------------------------------------------------
(* Properties of classify, checked under SpecClassify                      *)

\* Whether x occurs in the sequence, and how often.
Occurs(seq, x) == \E k \in 1..Len(seq) : seq[k] = x
Count(seq, x) == Cardinality({k \in 1..Len(seq) : seq[k] = x})

\* C2: classify partitions its input: the three lists together hold as many
\* items as the input, every item as often as the input holds it, no item is
\* in two lists, and each list is the input restricted to its items, in the
\* input's order.
C2_ClassifyPartitions ==
  fn = "classify" =>
    LET b == ret.breaking
        f == ret.features
        o == ret.other
        all == b \o f \o o
    IN  /\ Len(b) + Len(f) + Len(o) = Len(arg)
        /\ \A k \in 1..Len(all) : Occurs(arg, all[k])
        /\ \A k \in 1..Len(arg) : Count(all, arg[k]) = Count(arg, arg[k])
        /\ \A k \in 1..Len(arg) :
             ~(Occurs(b, arg[k]) /\ Occurs(f, arg[k]))
             /\ ~(Occurs(b, arg[k]) /\ Occurs(o, arg[k]))
             /\ ~(Occurs(f, arg[k]) /\ Occurs(o, arg[k]))
        /\ b = SelectSeq(arg, LAMBDA x : Occurs(b, x))
        /\ f = SelectSeq(arg, LAMBDA x : Occurs(f, x))
        /\ o = SelectSeq(arg, LAMBDA x : Occurs(o, x))

\* Three items, one of them twice, spread over two lists.
C2_Witness ==
  /\ fn = "classify"
  /\ Len(arg) = 3
  /\ arg[1] = arg[3]
  /\ arg[1] # arg[2]
  /\ Len(ret.breaking) = 2
  /\ Len(ret.features) = 1

\* C3: an item is in breaking exactly when its lower-cased text contains a
\* breaking keyword, in features exactly when it contains no breaking keyword
\* but a feature keyword, and in other exactly when it contains neither; so
\* "add auth support", in any case, is breaking, and the scenario of the
\* specification comes out as stated.
C3_ClassifyByKeyword ==
  fn = "classify" =>
    /\ \A k \in 1..Len(arg) :
         LET lower == Lower(arg[k])
             hasBreaking == \E j \in 1..Len(BREAKING_KEYS) : Contains(lower, BREAKING_KEYS[j])
             hasFeature == \E j \in 1..Len(FEATURE_KEYS) : Contains(lower, FEATURE_KEYS[j])
         IN  /\ Occurs(ret.breaking, arg[k]) <=> hasBreaking
             /\ Occurs(ret.features, arg[k]) <=> (~hasBreaking /\ hasFeature)
             /\ Occurs(ret.other, arg[k]) <=> (~hasBreaking /\ ~hasFeature)
    /\ \A k \in 1..Len(arg) :
         arg[k] \in {"add auth support", "ADD AUTH SUPPORT"} => Occurs(ret.breaking, arg[k])
    /\ arg = << "Remove legacy auth flag", "Add retry support" >> =>
         ret = [breaking |-> << "Remove legacy auth flag" >>,
                features |-> << "Add retry support" >>,
                other |-> << >>]

\* An item with a breaking and a feature keyword in upper case, one with a
\* feature keyword only and one with neither have been classified.
C3_Witness ==
  /\ fn = "classify"
  /\ arg = << "ADD AUTH SUPPORT", "Add retry support", "Fix typo" >>
  /\ ret.breaking = << "ADD AUTH SUPPORT" >>
  /\ ret.features = << "Add retry support" >>
  /\ ret.other = << "Fix typo" >>

-----------------------------------------------------------------------------
(* Properties of the extractors, checked under SpecExtract                 *)

\* The item the specification describes for a trimmed line that begins with
\* a marker: the line without its leading markers and the whitespace after them.
ItemAsSpecified(line) == Strip(SubSeq(line, RunLength("marker", line, 1) + 1, Len(line)))

RECURSIVE ItemsAsSpecified(_)
ItemsAsSpecified(lines) ==
  IF lines = << >> THEN << >>
  ELSE LET line == Strip(Head(lines))
           rest == ItemsAsSpecified(Tail(lines))
       IN  IF line # "" /\ InClass("marker", Ch(line, 1)) /\ ItemAsSpecified(line) # ""
           THEN << ItemAsSpecified(line) >> \o rest
           ELSE rest

\* C7, as the specification states it: extract_items returns, in line order,
\* the marker lines without their leading markers and the whitespace after
\* them, empty results discarded; no item is empty, and none begins with a
\* marker or with whitespace.
C7_ItemsStripped ==
  fn = "extract_items" =>
    /\ ret = ItemsAsSpecified(SplitLines(arg))
    /\ \A k \in 1..Len(ret) :
         /\ ret[k] # ""
         /\ ~InClass("marker", Ch(ret[k], 1))
         /\ ~IsSpace(Ch(ret[k], 1))

\* Whether an http:// or https:// token starts at position i of the line: the
\* scheme, and at least one character that is not whitespace.
TokenStartsAt(line, i) ==
  \E scheme \in {"http://", "https://"} :
    /\ i + Len(scheme) <= Len(line)
    /\ SubSeq(line, i, i + Len(scheme) - 1) = scheme
    /\ ~IsSpace(Ch(line, i + Len(scheme)))

HasToken(line) == \E i \in 1..Len(line) : TokenStartsAt(line, i)

\* The first token of a line that has one: from its start up to the
\* character before the next whitespace, or to the end of the line.
FirstToken(line) ==
  LET i == CHOOSE j \in 1..Len(line) :
             TokenStartsAt(line, j) /\ \A k \in 1..(j - 1) : ~TokenStartsAt(line, k)
      stops == {j \in i..Len(line) : IsSpace(Ch(line, j))}
      last == IF stops = {} THEN Len(line)
              ELSE (CHOOSE j \in stops : \A k \in stops : j <= k) - 1
  IN  SubSeq(line, i, last)

\* The least element of a non-empty set of numbers.
Least(S) == CHOOSE j \in S : \A k \in S : j <= k

\* C8, as the specification states it: the result comes from the first line
\* that contains "Full Changelog" and "http", and it is none exactly when no
\* line contains both.
C8_FirstLineWithBoth ==
  fn = "extract_changelog_url" =>
    LET lines == SplitLines(arg)
        both == {i \in 1..Len(lines) :
                   Contains(lines[i], "Full Changelog") /\ Contains(lines[i], "http")}
    IN  /\ ret = None <=> both = {}
        /\ both # {} => HasToken(lines[Least(both)])
                        /\ ret = Some(FirstToken(lines[Least(both)]))

\* C8, amended: the result comes from the first line that contains
\* "Full Changelog" and an http:// or https:// token (the scheme followed by
\* at least one character that is not whitespace); it is that line's first
\* token, which ends before the next whitespace and holds no whitespace, line
\* feed or carriage return; and it is none exactly when no line contains
\* "Full Changelog" and such a token.
C8_FirstLineWithToken ==
  fn = "extract_changelog_url" =>
    LET lines == SplitLines(arg)
        with == {i \in 1..Len(lines) :
                   Contains(lines[i], "Full Changelog") /\ HasToken(lines[i])}
    IN  /\ ret = None <=> with = {}
        /\ with # {} =>
             /\ ret = Some(FirstToken(lines[Least(with)]))
             /\ StartsWith(ret[1], "http://") \/ StartsWith(ret[1], "https://")
             /\ \A k \in 1..Len(ret[1]) : ~IsSpace(Ch(ret[1], k))

\* The first line names the changelog without a link, the second holds the
\* link followed by a blank; the link of the second line was returned.
C8_Witness ==
  /\ fn = "extract_changelog_url"
  /\ arg = "Full Changelog: see http docs\n**Full Changelog**: https://example.com/compare/v1...v2 "
  /\ ret = Some("https://example.com/compare/v1...v2")

-----------------------------------------------------------------------------
(* Properties of format_release, checked under SpecFormat                  *)

\* The positions of the lines of a text that equal a given line.
LinesEqual(lines, h) == {i \in 1..Len(lines) : lines[i] = h}

\* C9: the section holds the subheading of the breaking changes and then the
\* subheading of the new features, each once; under each come the bullets of
\* its category in classification order, or the one "None detected" bullet
\* exactly when the category is empty; the subheading of the other changes
\* and its bullets are there exactly when that category is not empty.  An
\* empty or absent body gives "None detected" twice and no other changes.
C9_SectionLayout ==
  fn = "format_release" =>
    LET lines == SplitLines(ret.text)
        body == IF arg.body = None THEN "" ELSE arg.body[1]
        cls == classify(extract_items(body))
        asBullets(items) == [k \in 1..Len(items) |-> "- " \o items[k]]
        expected(items) ==
          IF items = << >> THEN << "- None detected from release notes" >>
          ELSE asBullets(items)
        atBreaking == LinesEqual(lines, "### Potential breaking changes (heuristic)")
        atFeatures == LinesEqual(lines, "### New features")
        atOther == LinesEqual(lines, "### Other changes")
    IN  /\ ret.ok
        /\ Cardinality(atBreaking) = 1
        /\ Cardinality(atFeatures) = 1
        /\ Least(atBreaking) < Least(atFeatures)
        /\ LET i1 == Least(atBreaking)
               i2 == Least(atFeatures)
               last2 == IF atOther = {} THEN Len(lines) ELSE Least(atOther) - 2
               under1 == SubSeq(lines, i1 + 1, i2 - 2)
               under2 == SubSeq(lines, i2 + 1, last2)
           IN  /\ lines[i1 - 1] = "" /\ lines[i2 - 1] = ""
               /\ under1 = expected(cls.breaking)
               /\ under2 = expected(cls.features)
               /\ Count(under1, "- None detected from release notes") =
                    (IF cls.breaking = << >> THEN 1 ELSE 0)
               /\ Count(under2, "- None detected from release notes") =
                    (IF cls.features = << >> THEN 1 ELSE 0)
        /\ atOther # {} <=> cls.other # << >>
        /\ cls.other # << >> =>
             /\ Cardinality(atOther) = 1
             /\ lines[Least(atOther) - 1] = ""
             /\ SubSeq(lines, Least(atOther) + 1, Len(lines)) = asBullets(cls.other)
        /\ body = "" =>
             /\ atOther = {}
             /\ Count(lines, "- None detected from release notes") = 2

\* A body with a breaking item and an item that is neither: bullets under the
\* first subheading, "None detected" under the second, other changes present.
C9_Witness ==
  /\ fn = "format_release"
  /\ arg.body = Some("- Remove legacy auth flag\n  - Bump deps  ")
  /\ arg.tag_name = None
  /\ LinesEqual(SplitLines(ret.text), "### Other changes") # {}
  /\ Count(SplitLines(ret.text), "- None detected from release notes") = 1

-----------------------------------------------------------------------------
(* Properties of main, checked under Spec                                  *)

\* The timestamp string of a release, "" when it has none.
TimestampOf(r) ==
  IF Truthy(r.published_at) THEN r.published_at[1]
  ELSE IF Truthy(r.created_at) THEN r.created_at[1]
  ELSE ""

\* The four conditions of the filter, on the cutoff of the run's start.
Kept(r) ==
  /\ ~r.draft
  /\ ~r.prerelease \/ include_prereleases
  /\ TimestampOf(r) # ""
  /\ parse_iso8601(TimestampOf(r)).ok
  /\ parse_iso8601(TimestampOf(r)).t >= StartClock - days * 86400

\* Whether the report holds the section of a release.
HasSection(r) ==
  /\ TimestampOf(r) # ""
  /\ format_release(r).ok
  /\ Contains(out_file, format_release(r).text)

\* C1: when main has completed, a fetched release has a section in the
\* report exactly when it is no draft, is no prerelease or prereleases are
\* included, has a timestamp, and was published at or after the cutoff.
C1_SectionIffKept ==
  pc = "done" =>
    /\ \A k \in 1..Len(releases) : HasSection(releases[k]) <=> Kept(releases[k])
    /\ Len(body_sections) = Cardinality({k \in 1..Len(releases) : Kept(releases[k])})

\* The release published exactly at the 7-day cutoff is in the report, next
\* to a draft that is not.
C1_Witness ==
  /\ pc = "done"
  /\ days = 7
  /\ Len(releases) = 2
  /\ releases[1].tag_name = Some("v1.9")
  /\ releases[2].draft
  /\ Contains(out_file, "## v1.9 (2024-01-01, release)")
  /\ ~Contains(out_file, "v3.0-draft")

\* The header block of a run, written out.
HeaderText ==
  "# Release Watch\nRepo: owner/name\nChecked: 2024-01-08 (UTC)\nWindow: last "
    \o (IF days = 1 THEN "1" ELSE "7") \o " days\n\n"

RECURSIVE SectionsText(_)
SectionsText(rs) ==
  IF rs = << >> THEN ""
  ELSE format_release(Head(rs)).text
         \o (IF Len(rs) > 1 THEN "\n---\n" \o SectionsText(Tail(rs)) ELSE "")

\* C4: when main has completed, the exit status is 0; with no release
\* selected the output file is the header and the line "No releases
\* published in this window." and the signal is has_releases=0; otherwise the
\* file is the header and one section per selected release, separated by
\* horizontal rules, and the signal is has_releases=1.  The signal line is
\* appended only when a signal destination is configured.
C4_ReportAndSignalAgree ==
  pc = "done" =>
    /\ exit_status = 0
    /\ selected = << >> =>
         /\ out_file = HeaderText \o "No releases published in this window."
         /\ signal_file = OldSignal \o (IF gh_output THEN "has_releases=0\n" ELSE "")
    /\ selected # << >> =>
         /\ out_file = HeaderText \o SectionsText(selected)
         /\ Len(body_sections) = Len(selected)
         /\ signal_file = OldSignal \o (IF gh_output THEN "has_releases=1\n" ELSE "")

\* Two releases were selected and the signal destination is configured.
C4_Witness ==
  /\ pc = "done"
  /\ gh_output
  /\ Len(selected) = 2
  /\ Contains(out_file, "\n---\n")
  /\ signal_file = OldSignal \o "has_releases=1\n"

\* C5, as the specification states it: of two releases in the report, the
\* one published later comes first.
C5_NewestFirst ==
  pc = "done" =>
    \A j \in 1..Len(selected) : \A k \in 1..Len(selected) :
      j < k => parse_iso8601(TimestampOf(selected[j])).t
                 >= parse_iso8601(TimestampOf(selected[k])).t

\* Whether the loop of main passes over a release without parsing it.
PassedOver(r) ==
  \/ r.draft
  \/ r.prerelease /\ ~include_prereleases
  \/ TimestampOf(r) = ""

\* C6: a failure ends the run with a non-zero status, no section formatted
\* and nothing written; and main never gets past a release whose timestamp
\* it has to parse and cannot: only a run all of whose parses succeeded
\* reaches the report, and only that run exits with status 0.
C6_FailureAborts ==
  /\ pc = "failed" =>
       /\ exit_status # 0
       /\ body_sections = << >>
       /\ out_writes = 0
       /\ signal_appends = 0
  /\ pc \in {"filter", "write_empty", "signal_empty", "format", "write", "signal", "done"} =>
       \A k \in 1..Len(releases) :
         k < idx => PassedOver(releases[k]) \/ parse_iso8601(TimestampOf(releases[k])).ok
  /\ exit_status = 0 => pc = "done"

\* The second release has a malformed timestamp: the run failed there, after
\* it had selected the first.
C6_Witness ==
  /\ pc = "failed"
  /\ Len(releases) = 2
  /\ idx = 2
  /\ Len(selected) = 1
  /\ ~parse_iso8601(TimestampOf(releases[2])).ok

\* C10: format_release cannot fail on a selected release; a failed run leaves
\* the output file and the signal file as they were; a completed run has
\* written the output file once, before the signal line, which is appended
\* at most once, and only when the destination is configured.
C10_FailuresPrecedeWrites ==
  /\ pc = "format" => \A k \in 1..Len(selected) : format_release(selected[k]).ok
  /\ pc = "failed" => out_file = OldReport /\ signal_file = OldSignal
  /\ out_writes <= 1
  /\ signal_appends > 0 => out_writes = 1
  /\ pc = "done" =>
       /\ out_writes = 1
       /\ signal_appends = (IF gh_output THEN 1 ELSE 0)

\* A run that selected a release whose created_at is malformed while its
\* published_at is not, and completed.
C10_Witness ==
  /\ pc = "done"
  /\ gh_output
  /\ Len(selected) = 1
  /\ selected[1].created_at = Some("unknown")
  /\ out_writes = 1
  /\ signal_appends = 1

====
